---------------------------- MODULE Spec2Model ----------------------------
(***************************************************************************)
(* Mir-json (src/main.py): activation of the JSON language server, the     *)
(* schema-association resolution it performs, the vscode/content handler,  *)
(* the path resolution of user schemas and the sort command.               *)
(*                                                                         *)
(*   Spec       one activation, over every input of the resolution         *)
(*   SpecPaths  resolve_file_paths alone                                   *)
(*   SpecLife   activations that follow one another, with the install      *)
(*   SpecSort   one invocation of the sort command                         *)
(*   SpecRace   two vscode/content calls whose steps interleave            *)
(*   SpecEdit   the sort command while the document is being edited        *)
(*                                                                         *)
(* Python values are modelled as follows.                                  *)
(*   str    a tuple of one-character strings: "/a" is <<"/", "a">>          *)
(*   None   the tuple None below, which is no str (its element is not a    *)
(*          character)                                                     *)
(*   list   a tuple                                                        *)
(*   dict   a function from keys to values; {} is <<>>; a key that is      *)
(*          absent from the dict is absent from the DOMAIN                 *)
(***************************************************************************)
EXTENDS Naturals, Sequences, FiniteSets, TLC

None == <<"<None>">>

---------------------------------------------------------------------------
(* Characters and the str methods the program uses.                        *)

\* The printable ASCII characters in code order: Ascii[i] has code 31 + i
\* (code 96, the grave accent, is held by a placeholder that is no character).
Ascii ==
  <<" ","!","\"","#","$","%","&","'","(",")","*","+",",","-",".","/",
    "0","1","2","3","4","5","6","7","8","9",":",";","<","=",">","?",
    "@","A","B","C","D","E","F","G","H","I","J","K","L","M","N","O",
    "P","Q","R","S","T","U","V","W","X","Y","Z","[","\\","]","^","_",
    "<grave>","a","b","c","d","e","f","g","h","i","j","k","l","m","n","o",
    "p","q","r","s","t","u","v","w","x","y","z","{","|","}","~">>

HexDigits == <<"0","1","2","3","4","5","6","7","8","9","A","B","C","D","E","F">>

\* ord(c) for a printable ASCII character.
ord(c) == 31 + (CHOOSE i \in 1..Len(Ascii) : Ascii[i] = c)

Letters == {Ascii[i] : i \in 34..59} \cup {Ascii[i] : i \in 66..91}

Digits == {Ascii[i] : i \in 17..26}

\* urllib.parse: the characters quote() never encodes.
ALWAYS_SAFE == Letters \cup Digits \cup {"_", ".", "-", "~"}

\* "%XX" for one character, as urllib.parse.quote writes it.
percent_encode(c) ==
  <<"%", HexDigits[(ord(c) \div 16) + 1], HexDigits[(ord(c) % 16) + 1]>>

\* urllib.parse.quote(s, safe): every character outside ALWAYS_SAFE and safe
\* becomes its percent code ('%' itself included).
RECURSIVE quote(_, _)
quote(s, safe) ==
  IF s = <<>> THEN <<>>
  ELSE (IF Head(s) \in ALWAYS_SAFE \cup safe
          THEN <<Head(s)>>
          ELSE percent_encode(Head(s)))
       \o quote(Tail(s), safe)

\* The safe set of both quote calls of activate: safe="/*!".
GLOB_SAFE == {"/", "*", "!"}

\* [quote(fm, safe="/*!") for fm in file_matches]
quote_all(file_matches) ==
  [i \in 1..Len(file_matches) |-> quote(file_matches[i], GLOB_SAFE)]

\* s.startswith(p)
startswith(s, p) == Len(s) >= Len(p) /\ SubSeq(s, 1, Len(p)) = p

\* s.endswith(p)
endswith(s, p) ==
  Len(s) >= Len(p) /\ SubSeq(s, Len(s) - Len(p) + 1, Len(s)) = p

\* s.replace(old, new) for a non-empty old: every occurrence, left to right.
RECURSIVE replace(_, _, _)
replace(s, old, new) ==
  IF s = <<>> THEN <<>>
  ELSE IF startswith(s, old)
         THEN new \o replace(SubSeq(s, Len(old) + 1, Len(s)), old, new)
         ELSE <<Head(s)>> \o replace(Tail(s), old, new)

\* s.split(sep) for a one-character sep: the list of the pieces.
RECURSIVE split(_, _)
split(s, sep) ==
  IF \A i \in 1..Len(s) : s[i] # sep THEN <<s>>
  ELSE LET i == CHOOSE k \in 1..Len(s) :
                  s[k] = sep /\ \A j \in 1..(k - 1) : s[j] # sep
       IN  <<SubSeq(s, 1, i - 1)>> \o split(SubSeq(s, i + 1, Len(s)), sep)

\* sep.join(parts)
RECURSIVE join_str(_, _)
join_str(sep, parts) ==
  IF parts = <<>> THEN <<>>
  ELSE IF Len(parts) = 1 THEN parts[1]
  ELSE parts[1] \o sep \o join_str(sep, Tail(parts))

---------------------------------------------------------------------------
(* os.path (posixpath) and the file-URI conversion, as resolve_file_paths  *)
(* calls them.                                                             *)

\* A join that keeps a under an absolute b.
path_join_under(a, b) ==
  IF a = <<>> \/ endswith(a, <<"/">>) THEN a \o b
  ELSE a \o <<"/">> \o b

\* posixpath.join(a, b)
path_join(a, b) ==
  IF startswith(b, <<"/">>) THEN b
  ELSE IF a = <<>> \/ endswith(a, <<"/">>) THEN a \o b
  ELSE a \o <<"/">> \o b

\* The loop of posixpath.normpath over the components.
RECURSIVE norm_comps(_, _, _)
norm_comps(comps, new_comps, initial_slashes) ==
  IF comps = <<>> THEN new_comps
  ELSE LET comp == Head(comps)
           dotdot == <<".", ".">>
       IN  IF comp = <<>> \/ comp = <<".">>
             THEN norm_comps(Tail(comps), new_comps, initial_slashes)
           ELSE IF comp # dotdot
                   \/ (initial_slashes = 0 /\ new_comps = <<>>)
                   \/ (new_comps # <<>> /\ new_comps[Len(new_comps)] = dotdot)
             THEN norm_comps(Tail(comps), Append(new_comps, comp), initial_slashes)
           ELSE IF new_comps # <<>>
             THEN norm_comps(Tail(comps), SubSeq(new_comps, 1, Len(new_comps) - 1),
                             initial_slashes)
           ELSE norm_comps(Tail(comps), new_comps, initial_slashes)

\* posixpath.normpath(p)
normpath(p) ==
  IF p = <<>> THEN <<".">>
  ELSE LET initial_slashes ==
             IF ~startswith(p, <<"/">>) THEN 0
             ELSE IF startswith(p, <<"/", "/">>) /\ ~startswith(p, <<"/", "/", "/">>)
               THEN 2
             ELSE 1
           body == join_str(<<"/">>, norm_comps(split(p, "/"), <<>>, initial_slashes))
           res == [i \in 1..initial_slashes |-> "/"] \o body
       IN  IF res = <<>> THEN <<".">> ELSE res

FILE_SCHEME == <<"f","i","l","e",":","/","/">>

\* The percent-encoded path without a scheme.
file_name_to_uri_no_scheme(absolute_path) == quote(absolute_path, {"/"})

\* file_name_to_uri(absolute_path): "file://" followed by the percent-encoded
\* path, '/' kept.
file_name_to_uri(absolute_path) == FILE_SCHEME \o quote(absolute_path, {"/"})

---------------------------------------------------------------------------
(* dict operations.                                                        *)

\* k in d
has_key(d, k) == d # <<>> /\ k \in DOMAIN d

\* d.get(k, default)
dict_get(d, k, default) == IF has_key(d, k) THEN d[k] ELSE default

\* d[k] = v
dict_set(d, k, v) ==
  [x \in (IF d = <<>> THEN {} ELSE DOMAIN d) \cup {k} |->
     IF x = k THEN v ELSE d[x]]

---------------------------------------------------------------------------
(* sublime.encode_value(value, pretty=False) on the JSON objects of the    *)
(* model. A JSON object is a Python dict that keeps the order in which its *)
(* members were written: the tuple of its members [key, value], no key     *)
(* twice, the values strings.                                              *)

\* key in obj
obj_has(obj, k) == \E i \in 1..Len(obj) : obj[i].key = k

\* obj.get(key), with the default for an absent key.
obj_get(obj, k, default) ==
  IF obj_has(obj, k)
    THEN obj[CHOOSE i \in 1..Len(obj) : obj[i].key = k].value
    ELSE default

\* The text of a member name.
key_text(k) == IF k = "$id" THEN <<"$","i","d">> ELSE <<"t","y","p","e">>

\* The text of one character inside a JSON string: the quote and the
\* backslash are escaped, every other printable ASCII character stands for
\* itself.
json_escape(c) ==
  IF c = "\"" THEN <<"\\", "\"">>
  ELSE IF c = "\\" THEN <<"\\", "\\">>
  ELSE <<c>>

json_string(s) ==
  <<"\"">> \o join_str(<<>>, [i \in 1..Len(s) |-> json_escape(s[i])]) \o <<"\"">>

\* The members in the order of the dict, without spaces.
encode_value(value) ==
  LET members == [i \in 1..Len(value) |->
                    json_string(key_text(value[i].key)) \o <<":">>
                      \o json_string(value[i].value)]
  IN  <<"{">> \o join_str(<<",">>, members) \o <<"}">>

---------------------------------------------------------------------------
(* The hard-coded catalog. The list of the source has 481 entries; the     *)
(* model keeps the first one (no fileMatch), the third one (plain globs)   *)
(* and the lefthook entry (a glob with braces and commas), in source order.*)

get_schemas ==
  << [uri |-> <<"h","t","t","p","s",":","/","/","j","s","o","n",".","s","c","h","e","m","a","s","t","o","r","e",".","o","r","g","/","b","a","s","e",".","j","s","o","n">>],
     [fileMatch |->
        << <<"/",".","a","w","c",".","j","s","o","n">>,
           <<"/",".","a","w","c",".","j","s","o","n","c">>,
           <<"/",".","a","w","c">> >>,
      uri |-> <<"h","t","t","p","s",":","/","/","j","s","o","n",".","s","c","h","e","m","a","s","t","o","r","e",".","o","r","g","/","a","n","y","w","o","r","k","-","a","c","-","1",".","1",".","j","s","o","n">>],
     [fileMatch |->
        << <<"/","{",".","l","e","f","t","h","o","o","k",",","l","e","f","t","h","o","o","k",",","l","e","f","t","h","o","o","k","-","l","o","c","a","l",",",".","l","e","f","t","h","o","o","k","-","l","o","c","a","l","}",".","{","y","m","l",",","y","a","m","l",",","t","o","m","l",",","j","s","o","n","}">> >>,
      uri |-> <<"h","t","t","p","s",":","/","/","j","s","o","n",".","s","c","h","e","m","a","s","t","o","r","e",".","o","r","g","/","l","e","f","t","h","o","o","k",".","j","s","o","n">>] >>

---------------------------------------------------------------------------
(* resolve_file_paths                                                      *)

\* Lines 158-160 with a new entry made of the uri alone.
resolve_entry_uri_only(folder, schema) ==
  IF startswith(schema.uri, <<".">>) \/ startswith(schema.uri, <<"/">>)
    THEN LET absolute_path == normpath(path_join(folder.path, schema.uri))
         IN  [uri |-> file_name_to_uri(absolute_path)]
    ELSE schema

\* Lines 158-160: one entry of the loop.
resolve_entry(folder, schema) ==
  IF startswith(schema.uri, <<".">>) \/ startswith(schema.uri, <<"/">>)
    THEN LET absolute_path == normpath(path_join(folder.path, schema.uri))
         IN  [schema EXCEPT !.uri = file_name_to_uri(absolute_path)]
    ELSE schema

\* A resolution against the last workspace folder instead of the first.
resolve_file_paths_last_folder(workspace_folders, schemas) ==
  IF ~workspace_folders.some \/ workspace_folders.val = <<>>
    THEN schemas
    ELSE [i \in 1..Len(schemas) |->
            resolve_entry(workspace_folders.val[Len(workspace_folders.val)],
                          schemas[i])]

\* workspace_folders is [some |-> FALSE, val |-> <<>>] for None and
\* [some |-> TRUE, val |-> the list] otherwise.
resolve_file_paths(workspace_folders, schemas) ==
  IF ~workspace_folders.some \/ workspace_folders.val = <<>>
    THEN schemas
    ELSE [i \in 1..Len(schemas) |->
            resolve_entry(workspace_folders.val[1], schemas[i])]

---------------------------------------------------------------------------
(* The environment of one run: what the host hands to the program.         *)

\* A text that decodes to val (ok), or one whose read or decode raises.
Parsed(val) == [ok |-> TRUE, val |-> val]

Unparsable == [ok |-> FALSE, val |-> <<>>]

\* An optional non-string value: Python's None against a value.
Some(val) == [some |-> TRUE, val |-> val]

Nothing == [some |-> FALSE, val |-> <<>>]

\* __package__
package_name == <<"M","i","r","-","j","s","o","n">>

\* The two bundled catalog files, the base file first.
CATALOG_FILES_BASE_FIRST == <<"json-schemas.json", "json-schemas_extra.json">>

\* The two bundled catalog files, in the order of the loop of line 45.
CATALOG_FILES == <<"json-schemas_extra.json", "json-schemas.json">>

\* What a readable catalog file holds.
CatalogContent ==
  [name \in {"json-schemas_extra.json", "json-schemas.json"} |->
     IF name = "json-schemas_extra.json"
       THEN << [fileMatch |-> << <<"/","e","+",".","j","s","o","n">> >>, uri |-> <<"h","t","t","p","s",":","/","/","x","/","e">>] >>
       ELSE << [uri |-> <<"h","t","t","p","s",":","/","/","x","/","b","0">>],
               [fileMatch |-> << <<"/","b","(","1",")">>, <<"/","c">> >>, uri |-> <<"h","t","t","p","s",":","/","/","x","/","b","1">>] >>]

\* Schema bodies found in package manifests.
BodyB1 == << [key |-> "$id", value |-> <<"B">>], [key |-> "type", value |-> <<"o">>] >>

BodyB2 == << [key |-> "$id", value |-> <<"B">>], [key |-> "type", value |-> <<"s">>] >>

\* A body written type first, whose text needs escapes.
BodyB3 == << [key |-> "type", value |-> <<"\"", "\\">>], [key |-> "$id", value |-> <<"B">>] >>

BodyA ==
  << [key |-> "$id", value |-> <<"s","u","b","l","i","m","e",":","/","/","s","c","h","e","m","a","s","/","a">>], [key |-> "type", value |-> <<"n">>] >>

BodyNoId == << [key |-> "type", value |-> <<"o">>] >>

\* The sublime-package.json resources the run may find.
ManifestChoices ==
  { [name |-> "corrupt", ok |-> FALSE, val |-> <<>>],
    [name |-> "empty", ok |-> TRUE, val |-> <<>>],
    [name |-> "no-contributions", ok |-> TRUE, val |-> [name |-> <<"p","k","g">>]],
    [name |-> "one", ok |-> TRUE,
     val |-> [contributions |-> [settings |->
       << [file_patterns |-> << <<"/","w","{","1","}">> >>, schema |-> BodyB1] >>]]],
    [name |-> "two", ok |-> TRUE,
     val |-> [contributions |-> [settings |->
       << [schema |-> BodyA],
          [file_patterns |-> << <<"/","v",",","w">>, <<"/","x">> >>, schema |-> BodyB2] >>]]],
    [name |-> "no-id", ok |-> TRUE,
     val |-> [contributions |-> [settings |->
       << [file_patterns |-> << <<"/","n">> >>, schema |-> BodyNoId] >>]]],
    [name |-> "no-schema", ok |-> TRUE,
     val |-> [contributions |-> [settings |->
       << [file_patterns |-> << <<"/","m">> >>] >>]]] }

MaxManifests == 2

\* A manifest whose two settings entries carry the same $id.
ManifestTwice ==
  [name |-> "twice", ok |-> TRUE,
   val |-> [contributions |-> [settings |->
     << [file_patterns |-> << <<"/","y">> >>, schema |-> BodyB1],
        [file_patterns |-> << <<"/","z">> >>, schema |-> BodyB3] >>]]]

RECURSIVE SeqsUpTo(_, _)
SeqsUpTo(S, n) ==
  IF n = 0 THEN {<<>>}
  ELSE LET shorter == SeqsUpTo(S, n - 1)
       IN  shorter \cup {Append(q, x) : q \in shorter, x \in S}

\* The values of the setting json.userSchemas.
UserSchemaChoices ==
  { << [fileMatch |-> << <<"/","u","{","1","}">> >>, uri |-> <<".","/","s",".","j","s","o","n">>] >>,
    << [uri |-> <<"/","t",".","j","s","o","n">>],
       [fileMatch |-> << <<"/","k">> >>, uri |-> <<"h","t","t","p","s",":","/","/","x","/","u">>] >> }

\* The values of initialize_params['workspaceFolders'].
WorkspaceChoices ==
  { Nothing,
    Some(<< [name |-> <<"p">>, path |-> <<"/","p">>],
            [name |-> <<"q">>, path |-> <<"/","q">>] >>) }

\* The readable resources under the package's schemas/ tree, by path, each
\* with the value its text decodes to. Every other path fails to read.
BundledResources ==
  (<<"P","a","c","k","a","g","e","s","/","M","i","r","-","j","s","o","n","/","s","c","h","e","m","a","s","/","a",".","j","s","o","n">> :>
     << [key |-> "$id", value |-> <<"s","u","b","l","i","m","e",":","/","/","s","c","h","e","m","a","s","/","a">>], [key |-> "type", value |-> <<"o","b","j","e","c","t">>] >>)

\* The resources under schemas/ whose text is not JSON.
CorruptResources == { <<"P","a","c","k","a","g","e","s","/","M","i","r","-","j","s","o","n","/","s","c","h","e","m","a","s","/","c",".","j","s","o","n">> }

\* ResourcePath(path).read_text() followed by sublime.decode_value: the read
\* raises for a missing resource, the decoding for a text that is not JSON.
read_resource(path) ==
  IF path \in DOMAIN BundledResources
    THEN [ok |-> TRUE, val |-> BundledResources[path], exc |-> ""]
  ELSE IF path \in CorruptResources
    THEN [ok |-> FALSE, val |-> <<>>, exc |-> "ValueError"]
  ELSE [ok |-> FALSE, val |-> <<>>, exc |-> "FileNotFoundError"]

\* The URIs the server asks the content of.
RequestUris ==
  { <<"s","u","b","l","i","m","e",":","/","/","s","c","h","e","m","a","s","/","a">>,
    <<"s","u","b","l","i","m","e",":","/","/","s","c","h","e","m","a","s","/","b">>,
    <<"s","u","b","l","i","m","e",":","/","/","s","c","h","e","m","a","s","/","c">>,
    <<"s","u","b","l","i","m","e",":","/","/","s","u","b","l","i","m","e",":","/","/","s","c","h","e","m","a","s","/","a">>,
    <<"s","u","b","l","i","m","e",":","/","/","o","t","h","e","r","/","a">>,
    <<"h","t","t","p","s",":","/","/","x","/","a">>,
    <<"B">> }

---------------------------------------------------------------------------
(* State.                                                                  *)

VARIABLES
  server_path_exists,     \* server_path.exists()
  tree_holds_server,      \* ./language-server holds out/node/jsonServerMain.js
  catalogFiles,           \* the two catalog files: name -> Parsed / Unparsable
  manifests,              \* the sublime-package.json resources, in glob order
  workspaceFolders,       \* initialize_params['workspaceFolders']
  userSchemas,            \* settings.get('json.userSchemas') or []
  pc,                     \* where activate stands
  exc,                    \* the exception activate raised, "" when none
  user_schemas,           \* activate's local user_schemas
  schema_list,            \* activate's local schema_list
  schema_uri_to_content,  \* activate's local schema_uri_to_content
  handler_registered,     \* on_request('vscode/content', ...) has run
  sent,                   \* the notifications sent to the server, in order
  log,                    \* the diagnostics of activate, in order
  lastCall,               \* the last vscode/content call and what it did
  readCount,              \* per URI, the resource reads that succeeded
  setupCall,              \* what package_storage_setup did in this activation
  activation,             \* the number of this activation in the process
  view_settings,          \* self.view.settings() of the sorted view
  json_server,            \* server_for_view('json', self.view) is not None
  run_pc,                 \* where mir_json_sort_document_command.run stands
  requests,               \* the requests sent to the server of the view
  view_commands,          \* the view.run_command calls, in order
  buffer,                 \* the lines of the view's buffer
  inflight                \* the vscode/content calls in progress, step by step

vars ==
  <<server_path_exists, tree_holds_server, catalogFiles, manifests,
    workspaceFolders, userSchemas,
    pc, exc, user_schemas, schema_list, schema_uri_to_content,
    handler_registered, sent, log, lastCall, readCount, setupCall,
    activation, view_settings, json_server, run_pc, requests, view_commands,
    buffer, inflight>>

envVars ==
  <<tree_holds_server, catalogFiles, manifests, workspaceFolders, userSchemas>>

\* The state of the sort command and of the view it runs on.
sortVars ==
  <<view_settings, json_server, run_pc, requests, view_commands, buffer>>

---------------------------------------------------------------------------
(* activate, lines 45-52: the two catalog files.                           *)

\* parse_schema(resource): the decoded value, or None after one printed line.
parse_schema(resource) ==
  IF catalogFiles[resource].ok
    THEN [ret |-> Some(catalogFiles[resource].val), printed |-> <<>>]
    ELSE [ret |-> Nothing,
          printed |-> << [line |-> "Failed parsing schema", about |-> resource] >>]

\* Lines 49-52: the body of the inner loop.
encode_catalog_entry(schema) ==
  IF has_key(schema, "fileMatch") /\ schema.fileMatch # <<>>
    THEN [schema EXCEPT !.fileMatch = quote_all(schema.fileMatch)]
    ELSE schema

\* A loop turn that starts the list afresh when the file fails to parse.
load_catalog_file_reset(st, name) ==
  LET r == parse_schema(name)
      schemas == IF r.ret.some THEN r.ret.val ELSE <<>>
  IN  [st EXCEPT
         !.schema_list = IF r.ret.some
                           THEN @ \o [i \in 1..Len(schemas) |->
                                        encode_catalog_entry(schemas[i])]
                           ELSE <<>>,
         !.log = @ \o r.printed]

\* Lines 46-52: one turn of the outer loop. st is the state of activate's
\* locals: [cache, schema_list, log, exc].
load_catalog_file(st, name) ==
  LET r == parse_schema(name)
      schemas == IF r.ret.some THEN r.ret.val ELSE <<>>
  IN  [st EXCEPT
         !.schema_list = @ \o [i \in 1..Len(schemas) |->
                                 encode_catalog_entry(schemas[i])],
         !.log = @ \o r.printed]

RECURSIVE load_catalogs(_, _)
load_catalogs(names, st) ==
  IF names = <<>> THEN st
  ELSE load_catalogs(Tail(names), load_catalog_file(st, Head(names)))

---------------------------------------------------------------------------
(* activate, lines 54-70: the package manifests.                           *)

\* A settings entry whose schema text is not put into the cache.
process_setting_no_cache(st, s) ==
  LET file_patterns == dict_get(s, "file_patterns", <<>>)
  IN  IF ~has_key(s, "schema")
        THEN [st EXCEPT !.exc = "AttributeError"]
        ELSE [st EXCEPT
                !.schema_list =
                   Append(@, [fileMatch |-> quote_all(file_patterns),
                              uri |-> obj_get(s.schema, "$id", None)])]

\* Lines 66-70 with a cache entry that is kept when the $id comes again.
process_setting_first_wins(st, s) ==
  LET file_patterns == dict_get(s, "file_patterns", <<>>)
  IN  IF ~has_key(s, "schema")
        THEN [st EXCEPT !.exc = "AttributeError"]
        ELSE LET schema_content == s.schema
                 uri == obj_get(schema_content, "$id", None)
             IN  [st EXCEPT
                    !.cache = IF has_key(@, uri) THEN @
                              ELSE dict_set(@, uri, encode_value(schema_content)),
                    !.schema_list =
                       Append(@, [fileMatch |-> quote_all(file_patterns),
                                  uri |-> uri])]

\* Lines 66-70: one settings entry. s.get('schema') is None when the entry
\* has no schema, and None.get raises AttributeError.
process_setting(st, s) ==
  LET file_patterns == dict_get(s, "file_patterns", <<>>)
  IN  IF ~has_key(s, "schema")
        THEN [st EXCEPT !.exc = "AttributeError"]
        ELSE LET schema_content == s.schema
                 uri == obj_get(schema_content, "$id", None)
             IN  [st EXCEPT
                    !.cache = dict_set(@, uri, encode_value(schema_content)),
                    !.schema_list =
                       Append(@, [fileMatch |-> quote_all(file_patterns),
                                  uri |-> uri])]

RECURSIVE process_settings(_, _)
process_settings(settings, st) ==
  IF settings = <<>> \/ st.exc # "" THEN st
  ELSE process_settings(Tail(settings), process_setting(st, Head(settings)))

\* Lines 56-70 without the try of lines 57-61: the decoding error of a
\* manifest ends the loop.
process_manifest_untried(st, resource) ==
  IF ~resource.ok
    THEN [st EXCEPT !.exc = "ValueError"]
  ELSE IF resource.val = <<>> THEN st
  ELSE LET contributions == dict_get(resource.val, "contributions", <<>>)
       IN  IF ~has_key(contributions, "settings")
             THEN [st EXCEPT !.exc = "TypeError"]
             ELSE process_settings(contributions.settings, st)

\* Lines 56-70: one manifest. Iterating over None (no contributions.settings)
\* raises TypeError.
process_manifest(st, resource) ==
  IF ~resource.ok
    THEN [st EXCEPT !.log =
            Append(@, [line |-> "Error parsing sublime-package.json",
                       about |-> resource.name])]
  ELSE IF resource.val = <<>> THEN st
  ELSE LET contributions == dict_get(resource.val, "contributions", <<>>)
       IN  IF ~has_key(contributions, "settings")
             THEN [st EXCEPT !.exc = "TypeError"]
             ELSE process_settings(contributions.settings, st)

RECURSIVE process_manifests(_, _)
process_manifests(resources, st) ==
  IF resources = <<>> \/ st.exc # "" THEN st
  ELSE process_manifests(Tail(resources), process_manifest(st, Head(resources)))

---------------------------------------------------------------------------
(* activate, lines 72-87: the vscode/content handler.                      *)

SUBLIME_SCHEME == <<"s","u","b","l","i","m","e",":","/","/">>

SCHEMAS_DOMAIN == <<"s","c","h","e","m","a","s">>

\* 'Packages/{}/{}.json'.format(package_name, schema_path)
resource_path_of(schema_path) ==
  <<"P","a","c","k","a","g","e","s","/">> \o package_name \o <<"/">> \o schema_path \o <<".","j","s","o","n">>

\* What a call of the handler yields: what it returns or raises, the cache
\* it leaves, the resources it reads and the lines it prints.
HandlerResult(ret, exception, cache, read, printed) ==
  [ret |-> ret, exc |-> exception, cache |-> cache, read |-> read,
   printed |-> printed]

\* An internal branch that returns the content and does not keep it.
read_internal_schema_no_store(cache, uri, schema_path) ==
  LET path == resource_path_of(schema_path)
      r == read_resource(path)
  IN  IF r.ok
        THEN HandlerResult(encode_value(r.val), "", cache, <<path>>, <<>>)
        ELSE HandlerResult(None, r.exc, cache, <<path>>, <<>>)

\* An internal branch that remembers a failure as a None content.
read_internal_schema_caches_failure(cache, uri, schema_path) ==
  LET path == resource_path_of(schema_path)
      r == read_resource(path)
      content == encode_value(r.val)
  IN  IF r.ok
        THEN HandlerResult(content, "", dict_set(cache, uri, content),
                           <<path>>, <<>>)
        ELSE HandlerResult(None, r.exc, dict_set(cache, uri, None),
                           <<path>>, <<>>)

\* Lines 82-85: the internal schema is read, re-serialized, cached and
\* returned; a failing read or decode raises.
read_internal_schema(cache, uri, schema_path) ==
  LET path == resource_path_of(schema_path)
      r == read_resource(path)
      content == encode_value(r.val)
  IN  IF r.ok
        THEN HandlerResult(content, "", dict_set(cache, uri, content),
                           <<path>>, <<>>)
        ELSE HandlerResult(None, r.exc, cache, <<path>>, <<>>)

\* Lines 72-87: handle_vscode_content(params) on the cache.
handle_vscode_content(cache, params) ==
  LET uri == params[1]
      schema_path == replace(uri, SUBLIME_SCHEME, <<>>)
      schema_components == split(schema_path, "/")
      domain == schema_components[1]
  IN  IF has_key(cache, uri)
        THEN HandlerResult(cache[uri], "", cache, <<>>, <<>>)
      ELSE IF startswith(uri, SUBLIME_SCHEME) /\ domain = SCHEMAS_DOMAIN
        THEN read_internal_schema(cache, uri, schema_path)
      ELSE HandlerResult(None, "", cache, <<>>,
                         << [line |-> "Unknown schema URI",
                             package |-> package_name, uri |-> uri] >>)

---------------------------------------------------------------------------
(* activate, line 97: the notification's parameters.                       *)

\* A merge that puts the user entries first.
association_list_user_first(list, users) == users \o get_schemas \o list

association_list(list, users) == get_schemas \o list \o users

schema_associations(list, users) ==
  [method |-> "json/schemaAssociations",
   params |-> << association_list(list, users) >>]

---------------------------------------------------------------------------
(* Initial states: activate has been called on a fresh JsonServer.         *)

CatalogFileChoices ==
  { [name \in DOMAIN CatalogContent |->
       IF name \in bad THEN Unparsable ELSE Parsed(CatalogContent[name])]
    : bad \in SUBSET DOMAIN CatalogContent }

NoCall ==
  [called |-> FALSE, params |-> <<None>>, hit |-> FALSE, before |-> None,
   ret |-> None, exc |-> "", read |-> <<>>, printed |-> <<>>]

\* A cap on the successful reads counted per URI.
MaxReads == 2

\* package_storage_setup has not been called in this activation. "existed" is
\* what server_path.exists() returned, "begun" the install steps that have
\* begun, "pending" the awaited one, "returned" whether the call returned, and
\* "after_failure" whether the previous activation ended in a failed install.
NoSetup ==
  [called |-> FALSE, existed |-> FALSE, begun |-> <<>>, pending |-> "",
   returned |-> FALSE, after_failure |-> FALSE]

\* A bound on the vscode/content calls that are in progress together.
MaxRequests == 2

\* A call that has not arrived. "at" is the line the call stands at, "missed"
\* whether its test of line 74 found the URI absent, "content" the text it
\* holds to store.
NoRequest ==
  [at |-> "none", uri |-> None, missed |-> FALSE, content |-> None,
   ret |-> None, exc |-> ""]

NoRequests == [i \in 1..MaxRequests |-> NoRequest]

ProgramInit ==
  /\ pc = "start"
  /\ exc = ""
  /\ user_schemas = <<>>
  /\ schema_list = <<>>
  /\ schema_uri_to_content = <<>>
  /\ handler_registered = FALSE
  /\ sent = <<>>
  /\ log = <<>>
  /\ lastCall = NoCall
  /\ readCount = [u \in RequestUris |-> 0]
  /\ setupCall = NoSetup
  /\ activation = 1
  /\ inflight = NoRequests

\* Lines 15 and 22: server_storage.copy("./language-server"). The storage
\* holds server_path afterwards when it held it before or the tree holds it.
copy_language_server(exists, tree) == exists \/ tree

\* Lines 14-16, at the import of the module: the storage of the tag, holding
\* server_path or not from an earlier run, and the copy of line 15 into it.
module_imported ==
  /\ tree_holds_server \in BOOLEAN
  /\ \E held \in BOOLEAN :
       server_path_exists = copy_language_server(held, tree_holds_server)

\* The import when the tree holds the server file.
module_imported_with_server ==
  /\ tree_holds_server = TRUE
  /\ server_path_exists = copy_language_server(FALSE, tree_holds_server)

\* The sort command has not been invoked.
SortIdle ==
  /\ view_settings = <<>>
  /\ json_server = FALSE
  /\ run_pc = "idle"
  /\ requests = <<>>
  /\ view_commands = <<>>
  /\ buffer = <<>>

Init ==
  /\ module_imported
  /\ catalogFiles \in CatalogFileChoices
  /\ manifests \in SeqsUpTo(ManifestChoices, MaxManifests)
  /\ workspaceFolders \in WorkspaceChoices
  /\ userSchemas \in UserSchemaChoices
  /\ ProgramInit
  /\ SortIdle

---------------------------------------------------------------------------
(* Actions.                                                                *)

\* Lines 18-24 and 35: await package_storage_setup(), one action per step
\* between two suspension points.

\* Lines 19-21 without the test of server_path: deno.setup() is awaited at
\* every call.
package_storage_setup_untested ==
  /\ pc = "start"
  /\ setupCall' =
       [setupCall EXCEPT
          !.called = TRUE,
          !.existed = server_path_exists,
          !.begun = <<"deno.setup">>,
          !.pending = "deno.setup",
          !.returned = FALSE]
  /\ pc' = "deno.setup"
  /\ UNCHANGED <<envVars, server_path_exists, exc, user_schemas, schema_list,
                 schema_uri_to_content, handler_registered, sent, log,
                 lastCall, readCount, activation, sortVars, inflight>>

\* Lines 19-21: the test of server_path; when the file is absent, deno.setup()
\* is awaited.
package_storage_setup_called ==
  /\ pc = "start"
  /\ setupCall' =
       [setupCall EXCEPT
          !.called = TRUE,
          !.existed = server_path_exists,
          !.begun = IF server_path_exists THEN <<>> ELSE <<"deno.setup">>,
          !.pending = IF server_path_exists THEN "" ELSE "deno.setup",
          !.returned = server_path_exists]
  /\ pc' = IF server_path_exists THEN "resolve" ELSE "deno.setup"
  /\ UNCHANGED <<envVars, server_path_exists, exc, user_schemas, schema_list,
                 schema_uri_to_content, handler_registered, sent, log,
                 lastCall, readCount, activation, sortVars, inflight>>

\* Lines 21-24 with the install command started and not awaited.
deno_setup_returns_unawaited ==
  /\ pc = "deno.setup"
  /\ server_path_exists' =
       copy_language_server(server_path_exists, tree_holds_server)
  /\ setupCall' = [setupCall EXCEPT !.begun = @ \o <<"copy", "deno install">>,
                                    !.pending = "deno install",
                                    !.returned = TRUE]
  /\ pc' = "resolve"
  /\ UNCHANGED <<envVars, exc, user_schemas, schema_list,
                 schema_uri_to_content, handler_registered, sent, log,
                 lastCall, readCount, activation, sortVars, inflight>>

\* Lines 21-24 with a copy that leaves the server file behind whatever the
\* tree holds.
deno_setup_returns_brings_server ==
  /\ pc = "deno.setup"
  /\ server_path_exists' = TRUE
  /\ setupCall' = [setupCall EXCEPT !.begun = @ \o <<"copy", "deno install">>,
                                    !.pending = "deno install"]
  /\ pc' = "deno install"
  /\ UNCHANGED <<envVars, exc, user_schemas, schema_list,
                 schema_uri_to_content, handler_registered, sent, log,
                 lastCall, readCount, activation, sortVars, inflight>>

\* Lines 21-24: deno.setup() returns, line 22 copies ./language-server once
\* more (the copy of line 15 has run at the import, so a server file that is
\* absent on line 19 is not in the tree and stays absent), and the install
\* command is awaited.
deno_setup_returns ==
  /\ pc = "deno.setup"
  /\ server_path_exists' =
       copy_language_server(server_path_exists, tree_holds_server)
  /\ setupCall' = [setupCall EXCEPT !.begun = @ \o <<"copy", "deno install">>,
                                    !.pending = "deno install"]
  /\ pc' = "deno install"
  /\ UNCHANGED <<envVars, exc, user_schemas, schema_list,
                 schema_uri_to_content, handler_registered, sent, log,
                 lastCall, readCount, activation, sortVars, inflight>>

\* Line 21: deno.setup() raises, and activate ends with the exception.
deno_setup_raises ==
  /\ pc = "deno.setup"
  /\ setupCall' = [setupCall EXCEPT !.pending = ""]
  /\ pc' = "failed"
  /\ exc' = "SetupError"
  /\ UNCHANGED <<envVars, server_path_exists, user_schemas, schema_list,
                 schema_uri_to_content, handler_registered, sent, log,
                 lastCall, readCount, activation, sortVars, inflight>>

\* Line 24: the install command returns, and so does package_storage_setup.
\* The command installs the dependencies; server_path is no file of theirs.
deno_install_returns ==
  /\ pc = "deno install"
  /\ setupCall' = [setupCall EXCEPT !.pending = "", !.returned = TRUE]
  /\ pc' = "resolve"
  /\ UNCHANGED <<envVars, server_path_exists, exc, user_schemas, schema_list,
                 schema_uri_to_content, handler_registered, sent, log,
                 lastCall, readCount, activation, sortVars, inflight>>

\* Line 24: the install command raises, and activate ends with the exception.
deno_install_raises ==
  /\ pc = "deno install"
  /\ setupCall' = [setupCall EXCEPT !.pending = ""]
  /\ pc' = "failed"
  /\ exc' = "InstallError"
  /\ UNCHANGED <<envVars, server_path_exists, user_schemas, schema_list,
                 schema_uri_to_content, handler_registered, sent, log,
                 lastCall, readCount, activation, sortVars, inflight>>

package_storage_setup ==
  \/ package_storage_setup_called
  \/ deno_setup_returns
  \/ deno_setup_raises
  \/ deno_install_returns
  \/ deno_install_raises

\* Lines 37-91: from resolve_file_paths to the call of self.initialize, which
\* suspends. An exception of the manifest loop ends activate: its locals are
\* lost and no handler is registered.
activate_resolve ==
  /\ pc = "resolve"
  /\ LET st0 == [cache |-> <<>>, schema_list |-> <<>>, log |-> <<>>, exc |-> ""]
         st1 == load_catalogs(CATALOG_FILES, st0)
         st2 == process_manifests(manifests, st1)
     IN  /\ user_schemas' = resolve_file_paths(workspaceFolders, userSchemas)
         /\ log' = log \o st2.log
         /\ exc' = st2.exc
         /\ IF st2.exc # ""
              THEN /\ pc' = "failed"
                   /\ UNCHANGED <<schema_list, schema_uri_to_content,
                                  handler_registered>>
              ELSE /\ pc' = "initializing"
                   /\ schema_list' = st2.schema_list
                   /\ schema_uri_to_content' = st2.cache
                   /\ handler_registered' = TRUE
  /\ UNCHANGED <<envVars, server_path_exists, sent, lastCall, readCount,
                 setupCall, activation, sortVars, inflight>>

\* Lines 91-97 with the user entries merged into schema_list at the end.
initialize_returns_merges_late ==
  /\ pc = "initializing"
  /\ pc' = "active"
  /\ schema_list' = schema_list \o user_schemas
  /\ sent' = Append(sent, schema_associations(schema_list, user_schemas))
  /\ UNCHANGED <<envVars, server_path_exists, exc, user_schemas,
                 schema_uri_to_content, handler_registered, log, lastCall,
                 readCount, setupCall, activation, sortVars, inflight>>

\* Lines 91-97: initialize returns and the notification is sent.
initialize_returns ==
  /\ pc = "initializing"
  /\ pc' = "active"
  /\ sent' = Append(sent, schema_associations(schema_list, user_schemas))
  /\ UNCHANGED <<envVars, server_path_exists, exc, user_schemas, schema_list,
                 schema_uri_to_content, handler_registered, log, lastCall,
                 readCount, setupCall, activation, sortVars, inflight>>

\* Lines 91-97 with the notification in a finally clause.
initialize_raises_notifies ==
  /\ pc = "initializing"
  /\ pc' = "failed"
  /\ exc' = "InitializeError"
  /\ sent' = Append(sent, schema_associations(schema_list, user_schemas))
  /\ UNCHANGED <<envVars, server_path_exists, user_schemas, schema_list,
                 schema_uri_to_content, handler_registered, log,
                 lastCall, readCount, setupCall, activation, sortVars, inflight>>

\* Lines 91-96: initialize raises (the server does not start).
initialize_raises ==
  /\ pc = "initializing"
  /\ pc' = "failed"
  /\ exc' = "InitializeError"
  /\ UNCHANGED <<envVars, server_path_exists, user_schemas, schema_list,
                 schema_uri_to_content, handler_registered, sent, log,
                 lastCall, readCount, setupCall, activation, sortVars, inflight>>

\* The server sends vscode/content with params [uri]: lines 72-87.
vscode_content ==
  /\ handler_registered
  /\ pc \in {"initializing", "active"}
  /\ \E uri \in RequestUris :
       LET r == handle_vscode_content(schema_uri_to_content, <<uri>>)
           ok_read == r.read # <<>> /\ r.exc = ""
       IN  /\ readCount[uri] < MaxReads
           /\ schema_uri_to_content' = r.cache
           /\ lastCall' =
                [called |-> TRUE, params |-> <<uri>>,
                 hit |-> has_key(schema_uri_to_content, uri),
                 before |-> dict_get(schema_uri_to_content, uri, None),
                 ret |-> r.ret, exc |-> r.exc, read |-> r.read,
                 printed |-> r.printed]
           /\ readCount' =
                IF ok_read THEN [readCount EXCEPT ![uri] = @ + 1] ELSE readCount
  /\ UNCHANGED <<envVars, server_path_exists, pc, exc, user_schemas,
                 schema_list, handler_registered, sent, log, setupCall,
                 activation, sortVars, inflight>>

Next ==
  \/ package_storage_setup
  \/ activate_resolve
  \/ initialize_returns
  \/ initialize_raises
  \/ vscode_content

Spec == Init /\ [][Next]_vars

---------------------------------------------------------------------------
(* What the claims speak of, stated from the inputs of the run.            *)

Range(f) == {f[i] : i \in DOMAIN f}

Uris(list) == [i \in 1..Len(list) |-> list[i].uri]

Restrict(seq, S) == SelectSeq(seq, LAMBDA x : x \in S)

\* A json/schemaAssociations notification has been sent.
Notified == sent # <<>>

\* The association list of the first notification.
SentList == sent[1].params[1]

\* The entries of a readable catalog file, none for an unreadable one.
FileEntries(name) ==
  IF catalogFiles[name].ok THEN catalogFiles[name].val ELSE <<>>

\* The number of built-in associations of the run: the hard-coded ones and
\* those of the readable catalog files.
BuiltinCount ==
  Len(get_schemas) + Len(FileEntries("json-schemas_extra.json"))
                   + Len(FileEntries("json-schemas.json"))

\* The settings entries a manifest declares.
ManifestSettings(m) ==
  IF m.ok /\ has_key(m.val, "contributions")
          /\ has_key(m.val.contributions, "settings")
    THEN m.val.contributions.settings
    ELSE <<>>

\* The settings entries of all manifests, in discovery order.
RECURSIVE ContributedEntries(_)
ContributedEntries(ms) ==
  IF ms = <<>> THEN <<>>
  ELSE ManifestSettings(Head(ms)) \o ContributedEntries(Tail(ms))

\* A sent user association is the input entry, its uri possibly rewritten
\* to a file URI.
SameUserEntry(out, in) ==
  /\ DOMAIN out = DOMAIN in
  /\ has_key(in, "fileMatch") => out.fileMatch = in.fileMatch
  /\ \/ out.uri = in.uri
     \/ /\ startswith(in.uri, <<".">>) \/ startswith(in.uri, <<"/">>)
        /\ startswith(out.uri, FILE_SCHEME)

---------------------------------------------------------------------------
(* C1: in the association list sent with json/schemaAssociations the       *)
(* built-in associations come first, then the host-contributed ones, then  *)
(* the user ones; each group keeps its input order (the hard-coded list    *)
(* and each catalog file in their own order, the manifests' entries in     *)
(* discovery order, the user entries in settings order) and the list holds *)
(* each input entry exactly once.                                          *)
C1_MergeOrder ==
  Notified =>
    LET L == SentList
        nb == BuiltinCount
        contributed == ContributedEntries(manifests)
        nc == Len(contributed)
        nu == Len(userSchemas)
        builtinUris == Uris(SubSeq(L, 1, nb))
        groupKept(entries) ==
          Restrict(builtinUris, Range(Uris(entries))) = Uris(entries)
    IN  /\ Len(L) = nb + nc + nu
        /\ groupKept(get_schemas)
        /\ groupKept(FileEntries("json-schemas_extra.json"))
        /\ groupKept(FileEntries("json-schemas.json"))
        /\ \A i \in 1..nc :
             /\ has_key(contributed[i], "schema")
             /\ L[nb + i].uri = obj_get(contributed[i].schema, "$id", None)
        /\ \A i \in 1..nu : SameUserEntry(L[nb + nc + i], userSchemas[i])

\* C1's case: two manifests with entries, both catalog files and user
\* entries have been merged and sent.
C1_Witness ==
  /\ Notified
  /\ Len(manifests) = 2
  /\ Len(ManifestSettings(manifests[1])) >= 1
  /\ Len(ManifestSettings(manifests[2])) >= 2
  /\ \A name \in DOMAIN catalogFiles : catalogFiles[name].ok
  /\ Len(userSchemas) = 2

---------------------------------------------------------------------------
(* C2: every fileMatch glob of the sent list is percent-encoded with only  *)
(* '/', '*' and '!' exempt, so it holds none of the reserved characters    *)
(* '{', '}', ',', '+', '(', ')', '|', '?' in unencoded form.               *)

\* The characters an encoded glob is made of.
EncodedGlobChars == ALWAYS_SAFE \cup GLOB_SAFE \cup {"%"}

IsEncodedGlob(glob) == \A i \in 1..Len(glob) : glob[i] \in EncodedGlobChars

\* C2: every glob of every association of the sent list is an encoded glob.
C2_AllGlobsEncoded ==
  Notified =>
    \A i \in 1..Len(SentList) :
      has_key(SentList[i], "fileMatch") =>
        \A j \in 1..Len(SentList[i].fileMatch) :
          IsEncodedGlob(SentList[i].fileMatch[j])

---------------------------------------------------------------------------
(* resolve_file_paths on its own: a specification that draws its two       *)
(* arguments and applies it once.                                          *)

\* User schema entries, by the shape of their uri.
PathEntryChoices ==
  { [uri |-> <<".","/","s">>],
    [fileMatch |-> << <<"/","k">> >>, uri |-> <<"/","t">>],
    [uri |-> <<".",".","/","s">>],
    [fileMatch |-> << <<"/","m","{">> >>, uri |-> <<"s">>],
    [uri |-> <<"h","t","t","p","s",":","/","/","x","/","u">>],
    [uri |-> <<".">>],
    [uri |-> <<"/","a","/",".",".","/","b"," ","c">>] }

FolderP == [name |-> <<"p">>, path |-> <<"/","p">>]

FolderQ == [name |-> <<"q">>, path |-> <<"/","q","/","r","/">>]

PathWorkspaceChoices ==
  { Nothing, Some(<<>>), Some(<<FolderP>>), Some(<<FolderQ>>),
    Some(<<FolderP, FolderQ>>), Some(<<FolderQ, FolderP>>) }

MaxUserSchemas == 2

InitPaths ==
  /\ module_imported_with_server
  /\ catalogFiles = [name \in DOMAIN CatalogContent |-> Unparsable]
  /\ manifests = <<>>
  /\ workspaceFolders \in PathWorkspaceChoices
  /\ userSchemas \in SeqsUpTo(PathEntryChoices, MaxUserSchemas)
  /\ pc = "call resolve_file_paths"
  /\ exc = ""
  /\ user_schemas = <<>>
  /\ schema_list = <<>>
  /\ schema_uri_to_content = <<>>
  /\ handler_registered = FALSE
  /\ sent = <<>>
  /\ log = <<>>
  /\ lastCall = NoCall
  /\ readCount = [u \in RequestUris |-> 0]
  /\ setupCall = NoSetup
  /\ activation = 1
  /\ inflight = NoRequests
  /\ SortIdle

\* Lines 37-40 and 153-161: the call and its result.
call_resolve_file_paths ==
  /\ pc = "call resolve_file_paths"
  /\ user_schemas' = resolve_file_paths(workspaceFolders, userSchemas)
  /\ pc' = "resolve_file_paths returned"
  /\ UNCHANGED <<envVars, server_path_exists, exc, schema_list,
                 schema_uri_to_content, handler_registered, sent, log,
                 lastCall, readCount, setupCall, activation, sortVars, inflight>>

\* Lines 37-40 and 153-161 of a later call on the entries the first call
\* has rewritten.
call_resolve_file_paths_again ==
  /\ pc = "resolve_file_paths returned"
  /\ user_schemas' = resolve_file_paths(workspaceFolders, user_schemas)
  /\ pc' = "resolve_file_paths returned again"
  /\ UNCHANGED <<envVars, server_path_exists, exc, schema_list,
                 schema_uri_to_content, handler_registered, sent, log,
                 lastCall, readCount, setupCall, activation, sortVars, inflight>>

NextPaths ==
  \/ call_resolve_file_paths
  \/ call_resolve_file_paths_again

SpecPaths == InitPaths /\ [][NextPaths]_vars

---------------------------------------------------------------------------
(* C3: resolve_file_paths and the workspace folders.                       *)

PathsReturned == pc = "resolve_file_paths returned"

HasFolders == workspaceFolders.some /\ workspaceFolders.val # <<>>

IsPathUri(uri) == startswith(uri, <<".">>) \/ startswith(uri, <<"/">>)

\* The file URI of rel taken under the directory base.
AnchoredUri(base, rel) == file_name_to_uri(normpath(base \o <<"/">> \o rel))

IsAbsoluteFileUri(uri) == startswith(uri, FILE_SCHEME \o <<"/">>)

\* C3 as claimed: with a non-empty folder list every entry whose uri begins
\* with '.' or '/' gets the file URI of that uri under the first folder's
\* path; with an empty or missing list nothing changes.
C3_AnchoredAtFirstFolder ==
  PathsReturned =>
    IF HasFolders
      THEN /\ Len(user_schemas) = Len(userSchemas)
           /\ \A i \in 1..Len(userSchemas) :
                IsPathUri(userSchemas[i].uri) =>
                  /\ IsAbsoluteFileUri(user_schemas[i].uri)
                  /\ user_schemas[i].uri =
                       AnchoredUri(workspaceFolders.val[1].path, userSchemas[i].uri)
      ELSE user_schemas = userSchemas

\* C3 as amended: a uri that begins with '.' gets the file URI of that uri
\* under the first folder's path (later folders have no influence); a uri
\* that begins with '/' gets the file URI of its own normalized path, which
\* no folder enters; both are absolute file URIs; with an empty or missing
\* folder list nothing changes.
C3_ResolvedAgainstFirstFolder ==
  PathsReturned =>
    IF HasFolders
      THEN /\ Len(user_schemas) = Len(userSchemas)
           /\ \A i \in 1..Len(userSchemas) :
                LET in == userSchemas[i].uri
                    out == user_schemas[i].uri
                IN  /\ IsPathUri(in) => IsAbsoluteFileUri(out)
                    /\ startswith(in, <<".">>) =>
                         out = AnchoredUri(workspaceFolders.val[1].path, in)
                    /\ startswith(in, <<"/">>) =>
                         out = file_name_to_uri(normpath(in))
      ELSE user_schemas = userSchemas

\* C3's case: two folders with different paths, and entries of both kinds
\* have been resolved.
C3_Witness ==
  /\ PathsReturned
  /\ workspaceFolders.some
  /\ Len(workspaceFolders.val) = 2
  /\ \E i, j \in 1..Len(userSchemas) :
       /\ startswith(userSchemas[i].uri, <<".">>)
       /\ startswith(userSchemas[j].uri, <<"/">>)
       /\ user_schemas[i].uri # userSchemas[i].uri
       /\ user_schemas[j].uri # userSchemas[j].uri

---------------------------------------------------------------------------
(* C4: a vscode/content call for a URI that is in the content cache        *)
(* returns the cached text, reads no resource and leaves the cache as it   *)
(* was; a call that returns a text leaves that text in the cache; so the   *)
(* handler of one activation reads each URI's bundled resource             *)
(* successfully at most once.                                              *)
C4_CacheHitNoRead ==
  /\ (lastCall.called /\ lastCall.hit) =>
       /\ lastCall.ret = lastCall.before
       /\ lastCall.exc = ""
       /\ lastCall.read = <<>>
       /\ has_key(schema_uri_to_content, lastCall.params[1])
       /\ schema_uri_to_content[lastCall.params[1]] = lastCall.before
  /\ (lastCall.called /\ lastCall.exc = "" /\ lastCall.ret # None) =>
       /\ has_key(schema_uri_to_content, lastCall.params[1])
       /\ schema_uri_to_content[lastCall.params[1]] = lastCall.ret
  /\ \A u \in RequestUris : readCount[u] <= 1

\* C4's case: an internal URI whose resource was read by an earlier call is
\* asked for again and served from the cache.
C4_Witness ==
  /\ lastCall.called
  /\ lastCall.hit
  /\ startswith(lastCall.params[1], SUBLIME_SCHEME)
  /\ readCount[lastCall.params[1]] = 1

---------------------------------------------------------------------------
(* C5: a call for a URI that is not in the cache and is not a sublime://   *)
(* URI whose first path segment is 'schemas' returns None, prints exactly  *)
(* one line and does not raise.                                            *)

\* uri is sublime:// followed by a path whose first segment is 'schemas'.
IsInternalSchemaUri(uri) ==
  /\ startswith(uri, SUBLIME_SCHEME)
  /\ split(SubSeq(uri, Len(SUBLIME_SCHEME) + 1, Len(uri)), "/")[1]
       = SCHEMAS_DOMAIN

\* C5: such a call returns None, prints one line, raises nothing and reads
\* nothing.
C5_UnknownUriReturnsNone ==
  (lastCall.called /\ ~lastCall.hit
     /\ ~IsInternalSchemaUri(lastCall.params[1])) =>
    /\ lastCall.ret = None
    /\ lastCall.exc = ""
    /\ Len(lastCall.printed) = 1
    /\ lastCall.read = <<>>

---------------------------------------------------------------------------
(* C6: a catalog file that fails to parse costs one printed line and       *)
(* nothing else: the entries of the readable file are in the sent list,    *)
(* resolution is aborted by no catalog file (only by a manifest), and the  *)
(* sent list is never empty.                                               *)

\* Lines 37-91 have run (to the await, or to an exception).
ResolveRan ==
  \/ pc \in {"initializing", "active"}
  \/ pc = "failed" /\ exc \notin {"SetupError", "InstallError"}

ResolveRaised == pc = "failed" /\ exc \in {"TypeError", "AttributeError"}

ParseErrorsFor(name) ==
  Len(SelectSeq(log, LAMBDA l : l.line = "Failed parsing schema"
                                  /\ l.about = name))

\* A manifest that decodes to a non-empty value and has no
\* contributions.settings list, or a settings entry without a schema.
MalformedManifest(m) ==
  /\ m.ok
  /\ m.val # <<>>
  /\ \/ ~has_key(m.val, "contributions")
     \/ ~has_key(m.val.contributions, "settings")
     \/ \E k \in 1..Len(m.val.contributions.settings) :
          ~has_key(m.val.contributions.settings[k], "schema")

\* The sent list holds the catalog entry, its globs encoded.
SentHolds(entry) ==
  \E i \in 1..Len(SentList) :
    /\ SentList[i].uri = entry.uri
    /\ DOMAIN SentList[i] = DOMAIN entry
    /\ has_key(entry, "fileMatch") =>
         SentList[i].fileMatch = quote_all(entry.fileMatch)

\* C6: one printed line per corrupt catalog file and none per readable one;
\* only a malformed manifest aborts resolution; the sent list is non-empty
\* and holds every entry of every readable catalog file.
C6_CorruptCatalogFileSkipped ==
  ResolveRan =>
    /\ \A name \in DOMAIN catalogFiles :
         ParseErrorsFor(name) = IF catalogFiles[name].ok THEN 0 ELSE 1
    /\ ResolveRaised =>
         \E i \in 1..Len(manifests) : MalformedManifest(manifests[i])
    /\ Notified =>
         /\ SentList # <<>>
         /\ \A name \in DOMAIN catalogFiles :
              \A k \in 1..Len(FileEntries(name)) :
                SentHolds(FileEntries(name)[k])

\* C6's case: the base file is corrupt, the extra file is readable and the
\* list has been sent.
C6_Witness ==
  /\ Notified
  /\ ~catalogFiles["json-schemas.json"].ok
  /\ catalogFiles["json-schemas_extra.json"].ok
  /\ ParseErrorsFor("json-schemas.json") = 1

---------------------------------------------------------------------------
(* C7: schema resolution never raises, whatever the manifests hold.        *)
C7_ResolutionNeverRaises == ~ResolveRaised

---------------------------------------------------------------------------
(* C8: once the list is sent, every {file_patterns, schema} entry of a     *)
(* parsed manifest whose schema has an $id has an association with that    *)
(* uri and the encoded file_patterns; and, the $id values being distinct,  *)
(* the cache holds the compact text of that schema body under the $id and  *)
(* a vscode/content call for the $id returns it.                           *)

ContributedId(entry) == obj_get(entry.schema, "$id", None)

DistinctIds(entries) ==
  \A i, j \in 1..Len(entries) :
    i # j => ContributedId(entries[i]) # ContributedId(entries[j])

\* C8: the association and the served text of every contributed entry that
\* has an $id.
C8_ContributedSchemaServed ==
  Notified =>
    LET contributed == ContributedEntries(manifests)
    IN  \A k \in 1..Len(contributed) :
          LET entry == contributed[k]
              id == ContributedId(entry)
              text == encode_value(entry.schema)
          IN  obj_has(entry.schema, "$id") =>
                /\ \E i \in 1..Len(SentList) :
                     /\ SentList[i].uri = id
                     /\ has_key(SentList[i], "fileMatch")
                     /\ SentList[i].fileMatch =
                          quote_all(dict_get(entry, "file_patterns", <<>>))
                /\ DistinctIds(contributed) =>
                     /\ has_key(schema_uri_to_content, id)
                     /\ schema_uri_to_content[id] = text
                     /\ (lastCall.called /\ lastCall.params[1] = id) =>
                          (lastCall.ret = text /\ lastCall.exc = "")

\* C8's case: a manifest with two entries of distinct $id, the list sent,
\* and the content of one of them asked for and returned.
C8_Witness ==
  /\ Notified
  /\ Len(ContributedEntries(manifests)) = 2
  /\ DistinctIds(ContributedEntries(manifests))
  /\ lastCall.called
  /\ lastCall.params[1] = ContributedId(ContributedEntries(manifests)[2])
  /\ lastCall.ret = encode_value(ContributedEntries(manifests)[2].schema)

---------------------------------------------------------------------------
(* C9: every association of the sent list has a non-empty uri.             *)
C9_UriNonEmpty ==
  Notified =>
    \A i \in 1..Len(SentList) :
      SentList[i].uri # None /\ SentList[i].uri # <<>>

---------------------------------------------------------------------------
(* C10: every association of the sent list has no fileMatch or a           *)
(* non-empty one.                                                          *)
C10_FileMatchNonEmpty ==
  Notified =>
    \A i \in 1..Len(SentList) :
      has_key(SentList[i], "fileMatch") => SentList[i].fileMatch # <<>>

---------------------------------------------------------------------------
(* Activations that follow one another in one process: SpecLife. The       *)
(* inputs are fixed, the server file may be missing at the first call.     *)

\* A bound on the activations of one process.
MaxActivations == 2

InstallErrors == {"SetupError", "InstallError"}

\* package_storage_setup raised in this activation.
InstallFailed == pc = "failed" /\ exc \in InstallErrors

\* Lines 33-43: activate is called again, after the activation before it
\* ended or while its server runs. The locals of lines 37-43 are new objects,
\* the handler and the notifications belong to the new server; the disk and
\* the console stay.
activate_again ==
  /\ pc \in {"active", "failed"}
  /\ activation < MaxActivations
  /\ activation' = activation + 1
  /\ pc' = "start"
  /\ exc' = ""
  /\ user_schemas' = <<>>
  /\ schema_list' = <<>>
  /\ schema_uri_to_content' = <<>>
  /\ handler_registered' = FALSE
  /\ sent' = <<>>
  /\ lastCall' = NoCall
  /\ readCount' = [u \in RequestUris |-> 0]
  /\ setupCall' = [NoSetup EXCEPT !.after_failure = InstallFailed]
  /\ UNCHANGED <<envVars, server_path_exists, log, sortVars, inflight>>

\* The manifests of these runs: one entry, two entries of different $id, the
\* same $id in two manifests, the same $id twice in one manifest.
LifeManifestChoices ==
  LET named(n) == CHOOSE c \in ManifestChoices : c.name = n
  IN  { <<named("one")>>, <<named("two")>>, <<named("one"), named("two")>>,
        <<ManifestTwice>> }

InitLife ==
  /\ module_imported
  /\ catalogFiles = [name \in DOMAIN CatalogContent |-> Parsed(CatalogContent[name])]
  /\ manifests \in LifeManifestChoices
  /\ workspaceFolders = Nothing
  /\ userSchemas \in UserSchemaChoices
  /\ ProgramInit
  /\ SortIdle

NextLife ==
  \/ package_storage_setup
  \/ activate_resolve
  \/ initialize_returns
  \/ initialize_raises
  \/ vscode_content
  \/ activate_again

SpecLife == InitLife /\ [][NextLife]_vars

\* The install sequence of lines 21-24.
INSTALL_SEQUENCE == <<"deno.setup", "copy", "deno install">>

\* self.initialize has been called in this activation (line 91).
InitializeCalled ==
  \/ pc \in {"initializing", "active"}
  \/ pc = "failed" /\ exc = "InitializeError"

---------------------------------------------------------------------------
(* C11: in every activation, package_storage_setup has returned before     *)
(* self.initialize is called: no install step is pending then, and either  *)
(* the server file was there at the call or the whole install sequence has *)
(* run.                                                                    *)
C11_InstallBeforeServerStart ==
  InitializeCalled =>
    /\ setupCall.called
    /\ setupCall.returned
    /\ setupCall.pending = ""
    /\ setupCall.existed \/ setupCall.begun = INSTALL_SEQUENCE

C11_Witness ==
  /\ pc = "initializing"
  /\ ~setupCall.existed
  /\ setupCall.begun = INSTALL_SEQUENCE

---------------------------------------------------------------------------
(* C12: the vscode/content handler is registered when self.initialize is   *)
(* called; json/schemaAssociations has been sent once when initialize has  *)
(* returned and not at all in every other state of the activation: not     *)
(* before the call, not during it, not when it raised.                     *)
C12_HandlerThenStartThenOneNotification ==
  /\ InitializeCalled => handler_registered
  /\ Len(sent) = IF pc = "active" THEN 1 ELSE 0

C12_Witness ==
  /\ pc = "active"
  /\ handler_registered
  /\ Len(sent) = 1
  /\ activation = MaxActivations

---------------------------------------------------------------------------
(* C13: when package_storage_setup raised, the activation registered no    *)
(* handler, did not call initialize and sent nothing; and the activation   *)
(* that follows a failed installation runs the install sequence again.     *)
C13_FailedInstallStopsAndIsRetried ==
  /\ InstallFailed => ~handler_registered /\ ~InitializeCalled /\ sent = <<>>
  /\ (setupCall.called /\ setupCall.after_failure) => setupCall.begun # <<>>

\* C13's case: the install command raised in the first activation, and the
\* second one has run the whole sequence again.
C13_Witness ==
  /\ activation = MaxActivations
  /\ setupCall.after_failure
  /\ ~setupCall.existed
  /\ setupCall.begun = INSTALL_SEQUENCE
  /\ setupCall.returned

---------------------------------------------------------------------------
(* C14: a call of package_storage_setup begins the install sequence if and *)
(* only if server_path is absent at the call, the steps run in the order   *)
(* setup, copy, install, and a server file that exists stays: every later  *)
(* call finds it and begins no step.                                       *)
IsPrefix(p, q) == Len(p) <= Len(q) /\ SubSeq(q, 1, Len(p)) = p

\* C14: install steps begin exactly when server_path is absent at the call.
C14_InstallIffArtifactAbsent ==
  /\ [](setupCall.called =>
          /\ setupCall.existed <=> setupCall.begun = <<>>
          /\ IsPrefix(setupCall.begun, INSTALL_SEQUENCE)
          /\ setupCall.returned /\ ~setupCall.existed =>
               setupCall.begun = INSTALL_SEQUENCE)
  /\ [][server_path_exists => server_path_exists']_vars

C14_Witness ==
  /\ activation = MaxActivations
  /\ setupCall.called
  /\ setupCall.existed
  /\ setupCall.begun = <<>>
  /\ pc = "resolve"

---------------------------------------------------------------------------
(* C18: a URI that is in the content cache stays in it with the same       *)
(* content over every step of the process, a second activation included.   *)
CacheKept ==
  \A u \in DOMAIN schema_uri_to_content :
    /\ has_key(schema_uri_to_content', u)
    /\ schema_uri_to_content'[u] = schema_uri_to_content[u]

\* C18: no step of the process, the begin of another activation included,
\* removes or changes an entry of the content cache.
C18_CacheKeptForProcess == [][CacheKept]_vars

---------------------------------------------------------------------------
(* The sort command, lines 120-151: SpecSort. One invocation of            *)
(* mir_json_sort_document_command.run on a view.                           *)

\* The values a view setting holds: a bool, None or a str.
PyBool(b) == [type |-> "bool", val |-> <<b>>]

PyNone == [type |-> "None", val |-> <<>>]

PyStr(s) == [type |-> "str", val |-> s]

\* settings.get(key): None when the key is not set.
settings_get(settings, key) == dict_get(settings, key, PyNone)

\* x not in (False, None, "none"), line 139.
keeps_trimming(x) ==
  ~ \/ x = PyBool(FALSE)
    \/ x = PyNone
    \/ x = PyStr(<<"n","o","n","e">>)

\* settings.get(key, False) for a setting that holds a bool.
flag_get(settings, key) ==
  LET x == dict_get(settings, key, PyBool(FALSE)) IN x.val[1]

\* Lines 136-151.
formatting_options(settings) ==
  [tabSize |-> dict_get(settings, "tab_size", 4),
   insertSpaces |-> flag_get(settings, "translate_tabs_to_spaces"),
   trimTrailingWhitespace |->
     keeps_trimming(settings_get(settings, "trim_trailing_white_space_on_save")),
   insertFinalNewline |-> flag_get(settings, "ensure_newline_at_eof_on_save"),
   trimFinalNewlines |-> flag_get(settings, "ensure_newline_at_eof_on_save")]

\* The settings of the view: every key may be unset.
SettingValues ==
  [tab_size |-> {2, 8},
   translate_tabs_to_spaces |-> {PyBool(TRUE), PyBool(FALSE)},
   trim_trailing_white_space_on_save |->
     {PyBool(TRUE), PyBool(FALSE), PyNone, PyStr(<<"n","o","n","e">>), PyStr(<<"a","l","l">>)},
   ensure_newline_at_eof_on_save |-> {PyBool(TRUE), PyBool(FALSE)},
   trim_final_newlines_on_save |-> {PyBool(TRUE), PyBool(FALSE)}]

\* One key of the settings: unset, or set to one of its values.
OptSetting(key) == {<<>>} \cup {key :> v : v \in SettingValues[key]}

SettingsChoices ==
  { a @@ b @@ c @@ d @@ e :
      a \in OptSetting("tab_size"),
      b \in OptSetting("translate_tabs_to_spaces"),
      c \in OptSetting("trim_trailing_white_space_on_save"),
      d \in OptSetting("ensure_newline_at_eof_on_save"),
      e \in OptSetting("trim_final_newlines_on_save") }

\* get_view_uri(self.view)
VIEW_URI == <<"f","i","l","e",":","/","/","/","p","/","a",".","j","s","o","n">>

\* The lines of the view when the command is invoked.
VIEW_TEXT == << <<"{">>, <<"b">>, <<"a">>, <<"}">> >>

\* The edit sequences the server answers json/sort with: an edit replaces
\* one line of the buffer.
TextEditChoices ==
  { <<>>,
    << [line |-> 2, newText |-> <<"a">>] >>,
    << [line |-> 2, newText |-> <<"a">>], [line |-> 3, newText |-> <<"b">>] >> }

\* The command mir_apply_text_edits of the host: every edit of the list, in
\* one modification of the buffer.
RECURSIVE apply_text_edits(_, _)
apply_text_edits(lines, text_edits) ==
  IF text_edits = <<>> THEN lines
  ELSE apply_text_edits([lines EXCEPT ![Head(text_edits).line] = Head(text_edits).newText],
                        Tail(text_edits))

\* Lines 125-128.
JsonSortDocumentParams ==
  [uri |-> VIEW_URI, options |-> formatting_options(view_settings)]

\* Lines 121-129 without the test of lines 123-124.
run_without_server_test ==
  /\ run_pc = "idle"
  /\ requests' = Append(requests,
       [method |-> "json/sort", params |-> JsonSortDocumentParams,
        state |-> "pending", result |-> <<>>])
  /\ run_pc' = "awaiting"
  /\ UNCHANGED <<view_settings, json_server, view_commands, buffer>>
  /\ UNCHANGED <<envVars, server_path_exists, pc, exc, user_schemas,
                 schema_list, schema_uri_to_content, handler_registered, sent,
                 log, lastCall, readCount, setupCall, activation,
                 inflight>>

\* Lines 121-130: run returns when the view has no json server; otherwise it
\* sends json/sort and awaits the result.
run ==
  /\ run_pc = "idle"
  /\ IF ~json_server
       THEN /\ run_pc' = "returned"
            /\ UNCHANGED requests
       ELSE /\ requests' = Append(requests,
                 [method |-> "json/sort", params |-> JsonSortDocumentParams,
                  state |-> "pending", result |-> <<>>])
            /\ run_pc' = "awaiting"
  /\ UNCHANGED <<view_settings, json_server, view_commands, buffer>>
  /\ UNCHANGED <<envVars, server_path_exists, pc, exc, user_schemas,
                 schema_list, schema_uri_to_content, handler_registered, sent,
                 log, lastCall, readCount, setupCall, activation,
                 inflight>>

\* Lines 130-133 with one run_command for the first edit only.
result_arrives_first_edit_only ==
  /\ run_pc = "awaiting"
  /\ \E text_edits \in TextEditChoices :
       /\ requests' = [requests EXCEPT ![Len(requests)] =
                         [@ EXCEPT !.state = "done", !.result = text_edits]]
       /\ LET first == IF text_edits = <<>> THEN <<>> ELSE <<Head(text_edits)>>
          IN  /\ view_commands' = Append(view_commands,
                   [name |-> "mir_apply_text_edits",
                    args |-> [text_edits |-> first]])
              /\ buffer' = apply_text_edits(buffer, first)
  /\ run_pc' = "returned"
  /\ UNCHANGED <<view_settings, json_server>>
  /\ UNCHANGED <<envVars, server_path_exists, pc, exc, user_schemas,
                 schema_list, schema_uri_to_content, handler_registered, sent,
                 log, lastCall, readCount, setupCall, activation,
                 inflight>>

\* Lines 130-133 with the result dropped when the view has changed since
\* the request.
result_arrives_unless_edited ==
  /\ run_pc = "awaiting"
  /\ \E text_edits \in TextEditChoices :
       /\ requests' = [requests EXCEPT ![Len(requests)] =
                         [@ EXCEPT !.state = "done", !.result = text_edits]]
       /\ IF buffer = VIEW_TEXT
            THEN /\ view_commands' = Append(view_commands,
                      [name |-> "mir_apply_text_edits",
                       args |-> [text_edits |-> text_edits]])
                 /\ buffer' = apply_text_edits(buffer, text_edits)
            ELSE UNCHANGED <<view_commands, buffer>>
  /\ run_pc' = "returned"
  /\ UNCHANGED <<view_settings, json_server>>
  /\ UNCHANGED <<envVars, server_path_exists, pc, exc, user_schemas,
                 schema_list, schema_uri_to_content, handler_registered, sent,
                 log, lastCall, readCount, setupCall, activation,
                 inflight>>

\* Lines 130-133: the result arrives and the whole list goes to one
\* run_command('mir_apply_text_edits', ...).
result_arrives ==
  /\ run_pc = "awaiting"
  /\ \E text_edits \in TextEditChoices :
       /\ requests' = [requests EXCEPT ![Len(requests)] =
                         [@ EXCEPT !.state = "done", !.result = text_edits]]
       /\ view_commands' = Append(view_commands,
            [name |-> "mir_apply_text_edits",
             args |-> [text_edits |-> text_edits]])
       /\ buffer' = apply_text_edits(buffer, text_edits)
  /\ run_pc' = "returned"
  /\ UNCHANGED <<view_settings, json_server>>
  /\ UNCHANGED <<envVars, server_path_exists, pc, exc, user_schemas,
                 schema_list, schema_uri_to_content, handler_registered, sent,
                 log, lastCall, readCount, setupCall, activation,
                 inflight>>

\* Line 130: the request fails, await req.result raises and run ends there.
request_fails ==
  /\ run_pc = "awaiting"
  /\ requests' = [requests EXCEPT ![Len(requests)] =
                    [@ EXCEPT !.state = "failed"]]
  /\ run_pc' = "raised"
  /\ UNCHANGED <<view_settings, json_server, view_commands, buffer>>
  /\ UNCHANGED <<envVars, server_path_exists, pc, exc, user_schemas,
                 schema_list, schema_uri_to_content, handler_registered, sent,
                 log, lastCall, readCount, setupCall, activation,
                 inflight>>

\* The command is invoked on a view with or without a json server.
InitSort ==
  /\ module_imported_with_server
  /\ catalogFiles = [name \in DOMAIN CatalogContent |-> Unparsable]
  /\ manifests = <<>>
  /\ workspaceFolders = Nothing
  /\ userSchemas = <<>>
  /\ ProgramInit
  /\ view_settings \in SettingsChoices
  /\ json_server \in BOOLEAN
  /\ run_pc = "idle"
  /\ requests = <<>>
  /\ view_commands = <<>>
  /\ buffer = VIEW_TEXT

NextSort ==
  \/ run
  \/ result_arrives
  \/ request_fails

SpecSort == InitSort /\ [][NextSort]_vars

---------------------------------------------------------------------------
(* C15: when the view has no json server, run returns without an           *)
(* exception, no request has been sent, no command has run on the view and *)
(* the buffer is what it was.                                              *)
C15_NoServerNoOp ==
  (~json_server /\ run_pc # "idle") =>
    /\ run_pc = "returned"
    /\ requests = <<>>
    /\ view_commands = <<>>
    /\ buffer = VIEW_TEXT

C15_Witness == ~json_server /\ run_pc = "returned"

---------------------------------------------------------------------------
(* C16: with a json server, an invocation has sent one json/sort request   *)
(* with uri and options; while the result is awaited, and when the request *)
(* has failed, no command has run and the buffer is untouched; when the    *)
(* result has arrived, one mir_apply_text_edits command has run with the   *)
(* whole returned list, and the buffer holds every edit of it.             *)
C16_OneRequestThenOneApplication ==
  (json_server /\ run_pc # "idle") =>
    /\ Len(requests) = 1
    /\ requests[1].method = "json/sort"
    /\ requests[1].params =
         [uri |-> VIEW_URI, options |-> formatting_options(view_settings)]
    /\ run_pc = "awaiting" =>
         /\ requests[1].state = "pending"
         /\ view_commands = <<>>
         /\ buffer = VIEW_TEXT
    /\ run_pc = "raised" =>
         /\ requests[1].state = "failed"
         /\ view_commands = <<>>
         /\ buffer = VIEW_TEXT
    /\ run_pc = "returned" =>
         /\ requests[1].state = "done"
         /\ view_commands =
              << [name |-> "mir_apply_text_edits",
                  args |-> [text_edits |-> requests[1].result]] >>
         /\ buffer = apply_text_edits(VIEW_TEXT, requests[1].result)

C16_Witness ==
  /\ json_server
  /\ run_pc = "returned"
  /\ Len(requests[1].result) = 2
  /\ buffer # VIEW_TEXT

---------------------------------------------------------------------------
(* C17: in the options of the request, each of the five fields is the      *)
(* value of a host setting of its own: tabSize of tab_size, insertSpaces   *)
(* of translate_tabs_to_spaces, trimTrailingWhitespace of                  *)
(* trim_trailing_white_space_on_save, insertFinalNewline of                *)
(* ensure_newline_at_eof_on_save, and trimFinalNewlines of the setting     *)
(* that asks for the trimming of final newlines.                           *)
C17_EachFieldFromItsOwnSetting ==
  requests # <<>> =>
    LET options == requests[1].params.options
        settings == view_settings
    IN  /\ options.tabSize = dict_get(settings, "tab_size", 4)
        /\ options.insertSpaces = flag_get(settings, "translate_tabs_to_spaces")
        /\ options.trimTrailingWhitespace =
             keeps_trimming(settings_get(settings, "trim_trailing_white_space_on_save"))
        /\ options.insertFinalNewline =
             flag_get(settings, "ensure_newline_at_eof_on_save")
        /\ options.trimFinalNewlines =
             flag_get(settings, "trim_final_newlines_on_save")

---------------------------------------------------------------------------
(* C19: a vscode/content call for an internal URI that is not in the cache *)
(* and whose bundled resource cannot be read or decoded raises that error, *)
(* the step of the call leaves the cache as it was, the URI is not in the  *)
(* cache afterwards, and the next call for the same URI reads the same     *)
(* resource again.                                                         *)

\* Lines 76-80: the URI takes the internal branch: it starts with the
\* scheme, and what line 77 leaves of it has 'schemas' as its first segment.
TakesInternalBranch(uri) ==
  /\ startswith(uri, SUBLIME_SCHEME)
  /\ split(replace(uri, SUBLIME_SCHEME, <<>>), "/")[1] = SCHEMAS_DOMAIN

\* The resource lines 77-82 make of a URI: every 'sublime://' of the URI is
\* removed by line 77, the leading one and any other.
InternalResource(uri) ==
  resource_path_of(replace(uri, SUBLIME_SCHEME, <<>>))

\* The last call missed the cache, took the internal branch, and the read or
\* the decoding of line 83 raised.
FailedInternalCall ==
  /\ lastCall.called
  /\ ~lastCall.hit
  /\ TakesInternalBranch(lastCall.params[1])
  /\ ~read_resource(InternalResource(lastCall.params[1])).ok

\* C19: such a call raises, caches nothing, and the next one reads again.
C19_FailedReadRaisesAndIsNotCached ==
  /\ [](FailedInternalCall =>
          /\ lastCall.exc = read_resource(InternalResource(lastCall.params[1])).exc
          /\ lastCall.exc # ""
          /\ lastCall.ret = None
          /\ lastCall.read = <<InternalResource(lastCall.params[1])>>
          /\ ~has_key(schema_uri_to_content, lastCall.params[1])
          /\ handle_vscode_content(schema_uri_to_content, lastCall.params).read
               = lastCall.read)
  /\ [][(lastCall' # lastCall /\ lastCall'.exc # "") =>
          schema_uri_to_content' = schema_uri_to_content]_vars

C19_Witness ==
  /\ FailedInternalCall
  /\ lastCall.exc = "ValueError"
  /\ schema_uri_to_content # <<>>
  /\ \E u \in RequestUris : readCount[u] > 0

---------------------------------------------------------------------------
(* C20, as stated: in the sent association list every entry of the base    *)
(* catalog file (json-schemas.json) precedes every entry of the extra      *)
(* catalog file (json-schemas_extra.json).                                 *)

\* The places in the sent list of the entries of a catalog file.
PositionsOf(name) ==
  {i \in 1..Len(SentList) : SentList[i].uri \in Range(Uris(FileEntries(name)))}

\* C20, as stated: base entries before extra entries.
C20_BaseBeforeExtra ==
  Notified =>
    \A i \in PositionsOf("json-schemas.json") :
      \A j \in PositionsOf("json-schemas_extra.json") : i < j

\* C20, amended: the extra file is loaded first: after the hard-coded list,
\* every entry of the extra catalog file precedes every entry of the base
\* catalog file, and each file's entries are all there.
C20_ExtraBeforeBase ==
  Notified =>
    /\ \A i \in PositionsOf("json-schemas_extra.json") :
         /\ i > Len(get_schemas)
         /\ \A j \in PositionsOf("json-schemas.json") : i < j
    /\ \A name \in DOMAIN catalogFiles :
         Cardinality(PositionsOf(name)) = Len(FileEntries(name))

C20_Witness ==
  /\ Notified
  /\ catalogFiles["json-schemas.json"].ok
  /\ catalogFiles["json-schemas_extra.json"].ok
  /\ PositionsOf("json-schemas.json") # {}
  /\ PositionsOf("json-schemas_extra.json") # {}

---------------------------------------------------------------------------
(* C21: a call for an uncached URI sublime://schemas/<rest> reads the one  *)
(* resource Packages/<package>/schemas/<rest>.json and, when the read      *)
(* succeeds, returns its compact text and leaves it in the cache under the *)
(* URI; a call for an uncached sublime:// URI whose first path segment is  *)
(* not 'schemas' reads nothing, caches nothing and returns None.           *)

\* The last call was for a sublime:// URI that was not in the cache.
UncachedSublimeCall ==
  /\ lastCall.called
  /\ ~lastCall.hit
  /\ startswith(lastCall.params[1], SUBLIME_SCHEME)

\* C21: the internal branch is taken by the URIs whose first segment is
\* 'schemas', and by no other sublime:// URI.
C21_InternalUriMapsToItsResource ==
  UncachedSublimeCall =>
    LET uri == lastCall.params[1]
        rest == SubSeq(uri, Len(SUBLIME_SCHEME) + 1, Len(uri))
        resource == resource_path_of(rest)
        r == read_resource(resource)
    IN  IF IsInternalSchemaUri(uri)
          THEN /\ lastCall.read = <<resource>>
               /\ r.ok =>
                    /\ lastCall.ret = encode_value(r.val)
                    /\ has_key(schema_uri_to_content, uri)
                    /\ schema_uri_to_content[uri] = lastCall.ret
          ELSE /\ lastCall.read = <<>>
               /\ lastCall.ret = None
               /\ lastCall.exc = ""
               /\ ~has_key(schema_uri_to_content, uri)

---------------------------------------------------------------------------
(* C22: a manifest whose text does not parse costs one logged error and    *)
(* nothing else: it aborts nothing, it adds no association and no cache    *)
(* entry, and the entries of every other manifest, before and after it,    *)
(* are in the list and in the cache.                                       *)

\* The manifests whose text does not parse.
CorruptManifests == SelectSeq(manifests, LAMBDA m : ~m.ok)

\* The errors logged for manifests.
ManifestErrors ==
  SelectSeq(log, LAMBDA l : l.line = "Error parsing sublime-package.json")

\* Lines 37-91 have run to the await of initialize.
ResolveReturned == ResolveRan /\ ~ResolveRaised

\* The entries of the two catalog files that schema_list starts with.
CatalogCount ==
  Len(FileEntries("json-schemas_extra.json")) + Len(FileEntries("json-schemas.json"))

\* C22: the corrupt manifests are logged one by one and leave the result of
\* the other manifests as it is.
C22_CorruptManifestSkipped ==
  /\ ResolveRaised =>
       \E i \in 1..Len(manifests) : MalformedManifest(manifests[i])
  /\ ResolveReturned =>
       LET contributed == ContributedEntries(manifests)
       IN  /\ Len(ManifestErrors) = Len(CorruptManifests)
           /\ \A k \in 1..Len(ManifestErrors) :
                ManifestErrors[k].about = CorruptManifests[k].name
           /\ Len(schema_list) = CatalogCount + Len(contributed)
           /\ \A i \in 1..Len(contributed) :
                /\ schema_list[CatalogCount + i].uri =
                     obj_get(contributed[i].schema, "$id", None)
                /\ has_key(schema_uri_to_content,
                           obj_get(contributed[i].schema, "$id", None))
           /\ ~lastCall.called =>
                \A u \in DOMAIN schema_uri_to_content :
                  \E i \in 1..Len(contributed) :
                    u = obj_get(contributed[i].schema, "$id", None)

\* C22's case: the first manifest is corrupt, the one after it has entries,
\* and the list has been sent.
C22_Witness ==
  /\ Notified
  /\ Len(manifests) = 2
  /\ ~manifests[1].ok
  /\ ManifestSettings(manifests[2]) # <<>>
  /\ Len(ManifestErrors) = 1

---------------------------------------------------------------------------
(* vscode/content calls that overlap, lines 72-87 taken one statement at a *)
(* time: SpecRace. The handler is a plain function, so this interleaving   *)
(* holds every order the host can run calls in, and more.                  *)

\* The URIs of the overlapping calls.
RaceUris ==
  { <<"s","u","b","l","i","m","e",":","/","/","s","c","h","e","m","a","s","/","a">>, <<"s","u","b","l","i","m","e",":","/","/","s","c","h","e","m","a","s","/","c">>, <<"s","u","b","l","i","m","e",":","/","/","o","t","h","e","r","/","a">>, <<"B">> }

\* Line 73: a call arrives with its URI.
request_arrives(i) ==
  /\ handler_registered
  /\ pc \in {"initializing", "active"}
  /\ inflight[i].at = "none"
  /\ \E uri \in RaceUris :
       inflight' = [inflight EXCEPT ![i] = [@ EXCEPT !.at = "74", !.uri = uri]]
  /\ UNCHANGED <<envVars, server_path_exists, pc, exc, user_schemas,
                 schema_list, schema_uri_to_content, handler_registered, sent,
                 log, lastCall, readCount, setupCall, activation, sortVars>>

\* Lines 74-82 and 86-87: the test of the cache and the choice of the branch.
request_tests_cache(i) ==
  /\ inflight[i].at = "74"
  /\ LET uri == inflight[i].uri
         schema_path == replace(uri, SUBLIME_SCHEME, <<>>)
         domain == split(schema_path, "/")[1]
     IN  inflight' = [inflight EXCEPT ![i] =
           IF has_key(schema_uri_to_content, uri)
             THEN [@ EXCEPT !.at = "returned",
                            !.ret = schema_uri_to_content[uri]]
           ELSE IF startswith(uri, SUBLIME_SCHEME) /\ domain = SCHEMAS_DOMAIN
             THEN [@ EXCEPT !.at = "83", !.missed = TRUE]
           ELSE [@ EXCEPT !.at = "returned", !.missed = TRUE, !.ret = None]]
  /\ UNCHANGED <<envVars, server_path_exists, pc, exc, user_schemas,
                 schema_list, schema_uri_to_content, handler_registered, sent,
                 log, lastCall, readCount, setupCall, activation, sortVars>>

\* Line 83: the resource is read, decoded and encoded; a failure raises.
request_reads(i) ==
  /\ inflight[i].at = "83"
  /\ LET schema_path == replace(inflight[i].uri, SUBLIME_SCHEME, <<>>)
         r == read_resource(resource_path_of(schema_path))
     IN  inflight' = [inflight EXCEPT ![i] =
           IF r.ok
             THEN [@ EXCEPT !.at = "84", !.content = encode_value(r.val)]
             ELSE [@ EXCEPT !.at = "raised", !.exc = r.exc]]
  /\ UNCHANGED <<envVars, server_path_exists, pc, exc, user_schemas,
                 schema_list, schema_uri_to_content, handler_registered, sent,
                 log, lastCall, readCount, setupCall, activation, sortVars>>

\* Lines 84-85 with a store that gives way to an entry that is already there.
request_stores_unless_present(i) ==
  /\ inflight[i].at = "84"
  /\ schema_uri_to_content' =
       IF has_key(schema_uri_to_content, inflight[i].uri)
         THEN dict_set(schema_uri_to_content, inflight[i].uri, None)
         ELSE dict_set(schema_uri_to_content, inflight[i].uri, inflight[i].content)
  /\ inflight' = [inflight EXCEPT ![i] =
       [@ EXCEPT !.at = "returned", !.ret = inflight[i].content]]
  /\ UNCHANGED <<envVars, server_path_exists, pc, exc, user_schemas,
                 schema_list, handler_registered, sent,
                 log, lastCall, readCount, setupCall, activation, sortVars>>

\* Lines 84-85: the content is stored under the URI and returned.
request_stores(i) ==
  /\ inflight[i].at = "84"
  /\ schema_uri_to_content' =
       dict_set(schema_uri_to_content, inflight[i].uri, inflight[i].content)
  /\ inflight' = [inflight EXCEPT ![i] =
       [@ EXCEPT !.at = "returned", !.ret = inflight[i].content]]
  /\ UNCHANGED <<envVars, server_path_exists, pc, exc, user_schemas,
                 schema_list, handler_registered, sent,
                 log, lastCall, readCount, setupCall, activation, sortVars>>

InitRace ==
  /\ module_imported_with_server
  /\ catalogFiles = [name \in DOMAIN CatalogContent |-> Parsed(CatalogContent[name])]
  /\ manifests \in { <<m>> : m \in {c \in ManifestChoices : c.name \in {"one", "two"}} }
  /\ workspaceFolders = Nothing
  /\ userSchemas = <<>>
  /\ ProgramInit
  /\ SortIdle

NextRace ==
  \/ package_storage_setup_called
  \/ activate_resolve
  \/ initialize_returns
  \/ initialize_raises
  \/ \E i \in 1..MaxRequests : request_arrives(i)
  \/ \E i \in 1..MaxRequests : request_tests_cache(i)
  \/ \E i \in 1..MaxRequests : request_reads(i)
  \/ \E i \in 1..MaxRequests : request_stores(i)

SpecRace == InitRace /\ [][NextRace]_vars

---------------------------------------------------------------------------
(* C23: whatever the order of the steps of overlapping calls, two calls    *)
(* for the same URI that have ended have ended alike, with the same text   *)
(* or the same error, and the cache holds for the URI the text that an     *)
(* ended call returned.                                                    *)
Ended(i) == inflight[i].at \in {"returned", "raised"}

C23_OverlappingCallsAgree ==
  /\ \A i, j \in 1..MaxRequests :
       (Ended(i) /\ Ended(j) /\ inflight[i].uri = inflight[j].uri) =>
         /\ inflight[i].ret = inflight[j].ret
         /\ inflight[i].exc = inflight[j].exc
  /\ \A i \in 1..MaxRequests :
       (inflight[i].at = "returned" /\ inflight[i].ret # None) =>
         /\ has_key(schema_uri_to_content, inflight[i].uri)
         /\ schema_uri_to_content[inflight[i].uri] = inflight[i].ret

\* C23's case: two calls for one uncached internal URI have both missed the
\* cache, both read the resource, both stored, and ended.
C23_Witness ==
  /\ \A i \in 1..MaxRequests :
       /\ inflight[i].at = "returned"
       /\ inflight[i].missed
       /\ inflight[i].uri = <<"s","u","b","l","i","m","e",":","/","/","s","c","h","e","m","a","s","/","a">>
       /\ inflight[i].ret # None

---------------------------------------------------------------------------
(* C24, as stated: once the vscode/content handler is registered, the      *)
(* activation takes no further step: the server start and the              *)
(* notification are behind it.                                             *)
C24_NoActivationStepAfterRegistration ==
  [][(handler_registered /\ activation' = activation) =>
       (pc' = pc /\ sent' = sent)]_vars

\* C24, amended: before the handler is registered no call of it has run;
\* once it is registered, the activation writes neither the cache nor the
\* lists any more (only a call of the handler writes the cache), while the
\* server start and the notification are still to come.
C24_NoActivationWriteAfterRegistration ==
  /\ [](~handler_registered => (~lastCall.called /\ sent = <<>>))
  /\ [][(handler_registered /\ activation' = activation) =>
          /\ schema_list' = schema_list
          /\ user_schemas' = user_schemas
          /\ pc' # pc => schema_uri_to_content' = schema_uri_to_content]_vars

\* C24's case: a call of the handler has filled the cache while initialize
\* is still awaited and the notification is not sent.
C24_Witness ==
  /\ pc = "initializing"
  /\ sent = <<>>
  /\ lastCall.called
  /\ ~lastCall.hit
  /\ lastCall.ret # None
  /\ has_key(schema_uri_to_content, lastCall.params[1])

---------------------------------------------------------------------------
(* C25: while the handler of an activation serves calls, the keys of the   *)
(* content cache are the $id values stored from the manifests and the      *)
(* sublime://schemas/... URIs whose resource has been read successfully;   *)
(* a call that returns None or raises leaves the cache as it was.          *)

\* The keys of a dict.
keys(d) == IF d = <<>> THEN {} ELSE DOMAIN d

\* The $id values line 69 stores.
ContributedIds ==
  { obj_get(ContributedEntries(manifests)[i].schema, "$id", None)
    : i \in 1..Len(ContributedEntries(manifests)) }

\* The URIs for which the internal branch (lines 80-85) has read and decoded
\* its resource and returned.
InternalUrisRead ==
  {u \in RequestUris :
     /\ TakesInternalBranch(u)
     /\ read_resource(InternalResource(u)).ok
     /\ readCount[u] > 0}

\* C25: the key set, and the frame of a call that yields no content.
C25_CacheKeySet ==
  /\ [](pc \in {"initializing", "active"} =>
          keys(schema_uri_to_content) =
            ContributedIds
              \cup {u \in InternalUrisRead : IsInternalSchemaUri(u)})
  /\ [][(/\ lastCall' # lastCall
         /\ lastCall'.called
         /\ lastCall'.ret = None \/ lastCall'.exc # "") =>
          schema_uri_to_content' = schema_uri_to_content]_vars

---------------------------------------------------------------------------
(* The sort command on a view that is edited while the result is awaited:  *)
(* SpecEdit.                                                               *)

\* The lines of the view after an edit made during the await of line 130.
EDITED_TEXT == << <<"{">>, <<"c">>, <<"b">>, <<"a">>, <<"}">> >>

\* Line 130: while run is suspended, the host lets the user edit the view.
view_is_edited ==
  /\ run_pc = "awaiting"
  /\ buffer = VIEW_TEXT
  /\ buffer' = EDITED_TEXT
  /\ UNCHANGED <<view_settings, json_server, run_pc, requests, view_commands>>
  /\ UNCHANGED <<envVars, server_path_exists, pc, exc, user_schemas,
                 schema_list, schema_uri_to_content, handler_registered, sent,
                 log, lastCall, readCount, setupCall, activation, inflight>>

InitEdit == InitSort

NextEdit ==
  \/ run
  \/ view_is_edited
  \/ result_arrives
  \/ request_fails

SpecEdit == InitEdit /\ [][NextEdit]_vars

---------------------------------------------------------------------------
(* C26: the step that receives the result runs mir_apply_text_edits with   *)
(* the whole returned list on the buffer as it is then, edited since the   *)
(* request or not: nothing compares the document with the one the request  *)
(* was made for.                                                           *)
C26_EditsAppliedToChangedDocument ==
  [][(run_pc = "awaiting" /\ run_pc' = "returned") =>
       /\ view_commands' =
            Append(view_commands,
                   [name |-> "mir_apply_text_edits",
                    args |-> [text_edits |-> requests'[1].result]])
       /\ buffer' = apply_text_edits(buffer, requests'[1].result)]_vars

\* C26's case: the view was edited during the await, and the edits of the
\* result, made for the older text, are in the buffer.
C26_Witness ==
  /\ run_pc = "returned"
  /\ json_server
  /\ requests[1].result # <<>>
  /\ Len(view_commands) = 1
  /\ buffer = apply_text_edits(EDITED_TEXT, requests[1].result)
  /\ buffer # EDITED_TEXT

---------------------------------------------------------------------------
(* C27: with a non-empty folder list, an entry whose uri begins with '/'   *)
(* gets the file URI of its own normalized path, and gets the same URI     *)
(* whatever the path of the first workspace folder is.                     *)
C27_AbsoluteUriIgnoresFolder ==
  (PathsReturned /\ HasFolders) =>
    \A i \in 1..Len(userSchemas) :
      startswith(userSchemas[i].uri, <<"/">>) =>
        /\ user_schemas[i].uri = file_name_to_uri(normpath(userSchemas[i].uri))
        /\ \A other \in PathWorkspaceChoices :
             (other.some /\ other.val # <<>>) =>
               resolve_file_paths(other, userSchemas)[i].uri = user_schemas[i].uri

\* C27's case: an entry with an absolute uri that normalization changes has
\* been resolved with two folders of different paths to choose from.
C27_Witness ==
  /\ PathsReturned
  /\ HasFolders
  /\ Len(workspaceFolders.val) = 2
  /\ \E i \in 1..Len(userSchemas) :
       /\ startswith(userSchemas[i].uri, <<"/">>)
       /\ normpath(userSchemas[i].uri) # userSchemas[i].uri
       /\ startswith(user_schemas[i].uri, FILE_SCHEME)

---------------------------------------------------------------------------
(* C28: resolve_file_paths applied to its own result returns it unchanged: *)
(* a rewritten uri begins with neither '.' nor '/'.                        *)
PathsReturnedAgain == pc = "resolve_file_paths returned again"

C28_ResolveIdempotent ==
  /\ PathsReturnedAgain =>
       user_schemas = resolve_file_paths(workspaceFolders, userSchemas)
  /\ (PathsReturned /\ HasFolders) =>
       \A i \in 1..Len(user_schemas) : ~IsPathUri(user_schemas[i].uri)

\* C28's case: the second call has worked on entries the first call had
\* rewritten, one of them with a percent-encoded character.
C28_Witness ==
  /\ PathsReturnedAgain
  /\ HasFolders
  /\ user_schemas # userSchemas
  /\ \E i \in 1..Len(user_schemas) : "%" \in Range(user_schemas[i].uri)

---------------------------------------------------------------------------
(* C29: the result of resolve_file_paths has the entries of the input, in  *)
(* the same places, each with the keys and the fileMatch it had; only the  *)
(* uri of an entry whose uri begins with '.' or '/' may differ.            *)
C29_OnlyPathUrisChange ==
  PathsReturned =>
    /\ Len(user_schemas) = Len(userSchemas)
    /\ \A i \in 1..Len(userSchemas) :
         /\ DOMAIN user_schemas[i] = DOMAIN userSchemas[i]
         /\ user_schemas[i] = [userSchemas[i] EXCEPT !.uri = user_schemas[i].uri]
         /\ ~IsPathUri(userSchemas[i].uri) => user_schemas[i] = userSchemas[i]

\* C29's case: an entry with a fileMatch has had its uri rewritten next to
\* an entry that is left alone.
C29_Witness ==
  /\ PathsReturned
  /\ Len(userSchemas) = 2
  /\ \E i, j \in 1..2 :
       /\ has_key(userSchemas[i], "fileMatch")
       /\ user_schemas[i].uri # userSchemas[i].uri
       /\ user_schemas[i].fileMatch = userSchemas[i].fileMatch
       /\ ~IsPathUri(userSchemas[j].uri)
       /\ user_schemas[j] = userSchemas[j]

---------------------------------------------------------------------------
(* C30: when two contributed entries, of one manifest or of two, carry the *)
(* same $id, the sent list holds an association for each of them with that *)
(* uri, the cache holds under the uri the compact text of the schema of    *)
(* the entry processed last, and a vscode/content call for the uri returns *)
(* that text.                                                              *)

\* No entry after the k-th carries its $id.
LastOfItsId(entries, k) ==
  \A j \in (k + 1)..Len(entries) :
    ContributedId(entries[j]) # ContributedId(entries[k])

\* C30: every entry has its association, and the last entry of an $id has
\* its text in the cache.
C30_DuplicateIdLastWins ==
  Notified =>
    LET contributed == ContributedEntries(manifests)
    IN  \A k \in 1..Len(contributed) :
          LET id == ContributedId(contributed[k])
              text == encode_value(contributed[k].schema)
          IN  /\ SentList[BuiltinCount + k].uri = id
              /\ SentList[BuiltinCount + k].fileMatch =
                   quote_all(dict_get(contributed[k], "file_patterns", <<>>))
              /\ LastOfItsId(contributed, k) =>
                   /\ has_key(schema_uri_to_content, id)
                   /\ schema_uri_to_content[id] = text
                   /\ (lastCall.called /\ lastCall.params[1] = id) =>
                        (lastCall.ret = text /\ lastCall.exc = "" /\ lastCall.hit)

\* C30's case: one manifest with the same $id twice and two schema bodies,
\* the list sent, and the content asked for.
C30_Witness ==
  /\ Notified
  /\ manifests = <<ManifestTwice>>
  /\ lastCall.called
  /\ lastCall.params[1] = <<"B">>
  /\ lastCall.ret = encode_value(BodyB3)
  /\ lastCall.ret # encode_value(BodyB1)
  /\ lastCall.ret =
       <<"{", "\"", "t", "y", "p", "e", "\"", ":",
         "\"", "\\", "\"", "\\", "\\", "\"", ",",
         "\"", "$", "i", "d", "\"", ":", "\"", "B", "\"", "}">>

===========================================================================
